---- MODULE Spec2Model ----
(***************************************************************************)
(* Seat management core of logind (src/src/logind-seat.c).                 *)
(*                                                                         *)
(* The state is the Manager's seat registry (m->seats), the per-seat       *)
(* fields of struct Seat, the registry-wide GC worklist                    *)
(* (m->seat_gc_queue), which state files and temporary files exist under   *)
(* /run/systemd/seat, and a record of the last public call: its arguments, *)
(* its return value, the external calls it made in order and the text it   *)
(* wrote to the temporary file.                                            *)
(***************************************************************************)
EXTENDS Integers, Sequences, FiniteSets, TLC

\* ---------------------------------------------------------------- bounds
MaxVT == 2          \* VT numbers reported / carried by sessions: 1..MaxVT
MaxAutoVts == 3     \* m->n_autovts, read at each seat_start, ranges over 0..MaxAutoVts
MaxDevices == 1     \* devices a seat may own

\* ------------------------------------------------------- errno constants
EIO == 5
ENOMEM == 12
EINVAL == 22

\* ------------------------------------------------------------- universes
SeatIds == {"seat0", "seat1"}
SessionIds == {"c1", "c2"}
None == "none"

\* The environment of a run: the seats the system has, the sessions that may
\* log in, whether seats get devices, and which kinds of external call can
\* fail: allocation in seat_new, the open of a VT, the read of the
\* console-active indicator, the steps of a save, the ACL apply, a session stop.
FaultKinds == {"alloc", "open", "read", "save", "acl", "stop"}
Worlds ==
    {[seats |-> {"seat0"}, sessions |-> SessionIds, devices |-> TRUE,
      faults |-> {"acl", "stop"}],
     [seats |-> {"seat0"}, sessions |-> {"c1"}, devices |-> FALSE,
      faults |-> FaultKinds],
     [seats |-> {"seat1"}, sessions |-> {"c1"}, devices |-> TRUE,
      faults |-> FaultKinds],
     [seats |-> SeatIds, sessions |-> {"c1"}, devices |-> FALSE,
      faults |-> {}]}

\* uid of the user owning a session (session->user->uid)
SessionUid(c) == IF c = "c1" THEN 1000 ELSE 1001

\* results a session_stop() call may report
StopResults == {0, -EIO, -ENOMEM}
\* results devnode_acl_all() may report
AclResults == {0, -EIO}

VARIABLES
    seats,          \* registry: seat id -> struct Seat (exists = registered)
    vtnr,           \* session id -> its VT number (0: not on a VT / unattached)
    seat_gc_queue,  \* m->seat_gc_queue, head first
    vtconsole,      \* m->vtconsole: id of the console seat
    files,          \* seat id -> its state file exists
    temps,          \* seat id -> a temporary file of its state file exists
    world,          \* the environment of the run, one of Worlds
    aborted,        \* an assert() failed
    call            \* the last public call

vars == <<seats, vtnr, seat_gc_queue, vtconsole, files, temps, world, aborted, call>>

\* new0(Seat, 1): every field zero
BlankSeat ==
    [exists |-> FALSE, sessions |-> <<>>, active |-> None, devices |-> 0,
     started |-> FALSE, in_gc_queue |-> FALSE]

\* one external call made by an operation
Eff(e, n, a, b, x, y, r) ==
    [e |-> e, n |-> n, a |-> a, b |-> b, x |-> x, y |-> y, r |-> r]

\* record of a public call: operation, seat, integer argument, text read from
\* the console-active indicator (if any), return value, external calls in order
\* and text written to the temporary file
Call(op, s, n, text, ret, eff, written) ==
    [op |-> op, seat |-> s, n |-> n, text |-> text, ret |-> ret, eff |-> eff,
     written |-> written]

NoCall == Call("init", "seat0", 0, <<>>, 0, <<>>, <<>>)

\* ---------------------------------------------------------- list helpers
RECURSIVE Remove(_, _)
Remove(q, x) ==
    IF q = <<>> THEN <<>>
    ELSE IF Head(q) = x THEN Remove(Tail(q), x)
    ELSE <<Head(q)>> \o Remove(Tail(q), x)

Range(q) == {q[i] : i \in 1..Len(q)}

SeatOf(c) ==
    IF \E s \in SeatIds : c \in Range(seats[s].sessions)
    THEN CHOOSE s \in SeatIds : c \in Range(seats[s].sessions)
    ELSE None

IsConsole(s) == vtconsole = s

\* the outcomes of an external call of a kind: all of them where calls of the
\* kind can fail, the successful ones otherwise
Outcomes(kind, all, good) == IF kind \in world.faults THEN all ELSE good

Init ==
    /\ seats = [s \in SeatIds |-> BlankSeat]
    /\ vtnr = [c \in SessionIds |-> 0]
    /\ seat_gc_queue = <<>>
    /\ vtconsole = "seat0"
    /\ files = [s \in SeatIds |-> FALSE]
    /\ temps = [s \in SeatIds |-> FALSE]
    /\ world \in Worlds
    /\ aborted = FALSE
    /\ call = NoCall

\* ------------------------------------------------------------- seat_new
\* allocOk: new0() and strappend() succeed. hashmap_put() fails when the id is
\* already a key of the registry.
\* mutant: an id that is already a key replaces the registered seat
seat_new_replaces(id, allocOk) ==
    IF ~allocOk
    THEN [seats |-> seats, ret |-> 0]
    ELSE [seats |-> [seats EXCEPT ![id] = [BlankSeat EXCEPT !.exists = TRUE]],
          ret |-> 1]

seat_new(id, allocOk) ==
    IF ~allocOk \/ seats[id].exists
    THEN [seats |-> seats, ret |-> 0]
    ELSE [seats |-> [seats EXCEPT ![id] = [BlankSeat EXCEPT !.exists = TRUE]],
          ret |-> 1]

SeatNew ==
    /\ ~aborted
    /\ \E id \in world.seats, allocOk \in Outcomes("alloc", BOOLEAN, {TRUE}) :
        \E r \in {seat_new(id, allocOk)} :
        /\ seats' = r.seats
        /\ call' = Call("seat_new", id, 0, <<>>, r.ret, <<>>, <<>>)
        /\ UNCHANGED <<vtnr, seat_gc_queue, vtconsole, files, temps, world, aborted>>

\* ------------------------------------------- sessions and devices (attach)
\* A session is created on a VT and attached at the end of its seat's list.
SessionAttach ==
    \E s \in SeatIds, c \in world.sessions, v \in 1..MaxVT :
        /\ ~aborted
        /\ seats[s].exists
        /\ SeatOf(c) = None
        /\ seats' = [seats EXCEPT ![s].sessions = Append(@, c)]
        /\ vtnr' = [vtnr EXCEPT ![c] = v]
        /\ call' = Call("session_attach", s, 0, <<>>, 0, <<>>, <<>>)
        /\ UNCHANGED <<seat_gc_queue, vtconsole, files, temps, world, aborted>>

\* session_free(c): the session leaves its seat's list; a reference to it in
\* `active` is cleared on the same path.
session_free(S, c) ==
    [s \in SeatIds |->
        IF c \in Range(S[s].sessions)
        THEN [S[s] EXCEPT !.sessions = Remove(@, c),
                          !.active = IF @ = c THEN None ELSE @]
        ELSE S[s]]

SessionFree ==
    \E c \in SessionIds :
        /\ ~aborted
        /\ SeatOf(c) # None
        /\ seats' = session_free(seats, c)
        /\ vtnr' = [vtnr EXCEPT ![c] = 0]
        /\ call' = Call("session_free", SeatOf(c), 0, <<>>, 0, <<>>, <<>>)
        /\ UNCHANGED <<seat_gc_queue, vtconsole, files, temps, world, aborted>>

DeviceAttach ==
    \E s \in SeatIds :
        /\ ~aborted
        /\ world.devices
        /\ seats[s].exists
        /\ seats[s].devices < MaxDevices
        /\ seats' = [seats EXCEPT ![s].devices = @ + 1]
        /\ call' = Call("device_attach", s, 0, <<>>, 0, <<>>, <<>>)
        /\ UNCHANGED <<vtnr, seat_gc_queue, vtconsole, files, temps, world, aborted>>

\* device_free(d): the device leaves its seat's list
device_free(S, s) == [S EXCEPT ![s].devices = @ - 1]

DeviceFree ==
    \E s \in SeatIds :
        /\ ~aborted
        /\ seats[s].devices > 0
        /\ seats' = device_free(seats, s)
        /\ call' = Call("device_free", s, 0, <<>>, 0, <<>>, <<>>)
        /\ UNCHANGED <<vtnr, seat_gc_queue, vtconsole, files, temps, world, aborted>>

\* ------------------------------------------------- seat_add_to_gc_queue
\* mutant: the in_gc_queue guard is missing
seat_add_to_gc_queue_unguarded(S, q, s) ==
    [seats |-> [S EXCEPT ![s].in_gc_queue = TRUE], q |-> <<s>> \o q]

seat_add_to_gc_queue(S, q, s) ==
    IF S[s].in_gc_queue
    THEN [seats |-> S, q |-> q]
    ELSE [seats |-> [S EXCEPT ![s].in_gc_queue = TRUE], q |-> <<s>> \o q]

SeatAddToGcQueue ==
    \E s \in SeatIds :
        \E r \in {seat_add_to_gc_queue(seats, seat_gc_queue, s)} :
        /\ ~aborted
        /\ seats[s].exists
        /\ seats' = r.seats
        /\ seat_gc_queue' = r.q
        /\ call' = Call("seat_add_to_gc_queue", s, 0, <<>>, 0, <<>>, <<>>)
        /\ UNCHANGED <<vtnr, vtconsole, files, temps, world, aborted>>

\* -------------------------------------------------------- seat_check_gc
\* 1: keep, 0: collectible
\* mutant: the console seat is not protected
seat_check_gc_devices_only(S, s) == IF S[s].devices > 0 THEN 1 ELSE 0

seat_check_gc(S, s) ==
    IF IsConsole(s) THEN 1
    ELSE IF S[s].devices > 0 THEN 1 ELSE 0

SeatCheckGc ==
    \E s \in SeatIds :
        /\ ~aborted
        /\ seats[s].exists
        /\ call' = Call("seat_check_gc", s, 0, <<>>, seat_check_gc(seats, s), <<>>, <<>>)
        /\ UNCHANGED <<seats, vtnr, seat_gc_queue, vtconsole, files, temps, world, aborted>>

\* ------------------------------------------------------- seat_apply_acls
\* The devnode_acl_all() call made for seat s after `active` has moved; r is
\* what the call reports.
seat_apply_acls(S, s, old_active, r) ==
    Eff("devnode_acl_all", 0, old_active, S[s].active,
        IF old_active # None THEN SessionUid(old_active) ELSE 0,
        IF S[s].active # None THEN SessionUid(S[s].active) ELSE 0,
        r)

manager_spawn_autovt(n) == Eff("manager_spawn_autovt", n, None, None, 0, 0, 0)

\* ------------------------------------------------ seat_active_vt_changed
\* mutant: the scan runs over every session of the manager
FirstOnVt_any_seat(L, n) ==
    IF \E c \in SessionIds : vtnr[c] = n
    THEN CHOOSE c \in SessionIds : vtnr[c] = n
    ELSE None

\* LIST_FOREACH ... break: the first session of the list on VT n
FirstOnVt(L, n) ==
    IF \E i \in 1..Len(L) : vtnr[L[i]] = n
    THEN L[CHOOSE i \in 1..Len(L) :
               /\ vtnr[L[i]] = n
               /\ \A j \in 1..(i - 1) : vtnr[L[j]] # n]
    ELSE None

\* mutant: the loop has no break, the last session on VT n wins
seat_active_vt_changed_last_match(S, s, n, aclR) ==
    IF ~IsConsole(s)
    THEN [seats |-> S, ret |-> -EINVAL, eff |-> <<>>]
    ELSE LET L == S[s].sessions
             new_active ==
                 IF \E i \in 1..Len(L) : vtnr[L[i]] = n
                 THEN L[CHOOSE i \in 1..Len(L) :
                            /\ vtnr[L[i]] = n
                            /\ \A j \in (i + 1)..Len(L) : vtnr[L[j]] # n]
                 ELSE None
             old_active == S[s].active
             S1 == [S EXCEPT ![s].active = new_active]
         IN  IF new_active = old_active
             THEN [seats |-> S, ret |-> 0, eff |-> <<>>]
             ELSE [seats |-> S1, ret |-> 0,
                   eff |-> <<seat_apply_acls(S1, s, old_active, aclR),
                             manager_spawn_autovt(n)>>]

\* mutant: a VT without a session is not spawned on
seat_active_vt_changed_no_spawn(S, s, n, aclR) ==
    IF ~IsConsole(s)
    THEN [seats |-> S, ret |-> -EINVAL, eff |-> <<>>]
    ELSE LET new_active == FirstOnVt(S[s].sessions, n)
             old_active == S[s].active
             S1 == [S EXCEPT ![s].active = new_active]
         IN  IF new_active = old_active
             THEN [seats |-> S, ret |-> 0, eff |-> <<>>]
             ELSE [seats |-> S1, ret |-> 0,
                   eff |-> <<seat_apply_acls(S1, s, old_active, aclR)>>
                           \o (IF new_active = None THEN <<>>
                               ELSE <<manager_spawn_autovt(n)>>)]

\* mutant: the seat is not checked to be the console seat
seat_active_vt_changed_any_seat(S, s, n, aclR) ==
    LET new_active == FirstOnVt(S[s].sessions, n)
        old_active == S[s].active
        S1 == [S EXCEPT ![s].active = new_active]
    IN  IF new_active = old_active
        THEN [seats |-> S, ret |-> 0, eff |-> <<>>]
        ELSE [seats |-> S1, ret |-> 0,
              eff |-> <<seat_apply_acls(S1, s, old_active, aclR),
                        manager_spawn_autovt(n)>>]

\* mutant: a failed ACL apply puts `active` back and is returned
seat_active_vt_changed_rollback(S, s, n, aclR) ==
    IF ~IsConsole(s)
    THEN [seats |-> S, ret |-> -EINVAL, eff |-> <<>>]
    ELSE LET new_active == FirstOnVt(S[s].sessions, n)
             old_active == S[s].active
             S1 == [S EXCEPT ![s].active = new_active]
         IN  IF new_active = old_active
             THEN [seats |-> S, ret |-> 0, eff |-> <<>>]
             ELSE IF aclR < 0
             THEN [seats |-> S, ret |-> aclR,
                   eff |-> <<seat_apply_acls(S1, s, old_active, aclR)>>]
             ELSE [seats |-> S1, ret |-> 0,
                   eff |-> <<seat_apply_acls(S1, s, old_active, aclR),
                             manager_spawn_autovt(n)>>]

seat_active_vt_changed(S, s, n, aclR) ==
    IF ~IsConsole(s)
    THEN [seats |-> S, ret |-> -EINVAL, eff |-> <<>>]
    ELSE LET new_active == FirstOnVt(S[s].sessions, n)
             old_active == S[s].active
             S1 == [S EXCEPT ![s].active = new_active]
         IN  IF new_active = old_active
             THEN [seats |-> S, ret |-> 0, eff |-> <<>>]
             ELSE [seats |-> S1, ret |-> 0,
                   eff |-> <<seat_apply_acls(S1, s, old_active, aclR),
                             manager_spawn_autovt(n)>>]

SeatActiveVtChanged ==
    \E s \in SeatIds, n \in 1..MaxVT, aclR \in Outcomes("acl", AclResults, {0}) :
        \E r \in {seat_active_vt_changed(seats, s, n, aclR)} :
        /\ ~aborted
        /\ seats[s].exists
        /\ seats' = r.seats
        /\ call' = Call("seat_active_vt_changed", s, n, <<>>, r.ret, r.eff, <<>>)
        /\ UNCHANGED <<vtnr, seat_gc_queue, vtconsole, files, temps, world, aborted>>

\* ------------------------------------------------------------ seat_save
\* Text is a sequence of tokens, one per conversion or literal written.
UidText(c) == ToString(SessionUid(c))

\* the loop of lines 118-126 / 129-137 over the list L from position i: every
\* session but the active one, followed by ' ' when it has a successor in the
\* list and by '\n' when it is the last element
RECURSIVE OtherTokens(_, _, _, _)
OtherTokens(L, i, active, uids) ==
    IF i > Len(L) THEN <<>>
    ELSE (IF L[i] = active THEN <<>>
          ELSE <<IF uids THEN UidText(L[i]) ELSE L[i],
                 IF i < Len(L) THEN " " ELSE "\n">>)
         \o OtherTokens(L, i + 1, active, uids)

Snapshot(S, s) ==
    <<"# This is private data. Do not parse.\n",
      "IS_VTCONSOLE=", IF IsConsole(s) THEN "1" ELSE "0", "\n">>
    \o (IF S[s].active # None
        THEN <<"ACTIVE=", S[s].active, "\n",
               "ACTIVE_UID=", UidText(S[s].active), "\n">>
        ELSE <<>>)
    \o (IF S[s].sessions # <<>>
        THEN <<"OTHER=">> \o OtherTokens(S[s].sessions, 1, S[s].active, FALSE)
             \o <<"OTHER_UIDS=">> \o OtherTokens(S[s].sessions, 1, S[s].active, TRUE)
        ELSE <<>>)

\* how a save goes: every step works, or the named step fails
SaveModes == {"ok", "mkdir", "fopen", "ferror", "rename"}

\* mutant: a failed write or rename leaves both files where they are
seat_save_no_cleanup(S, s, old, mode) ==
    IF mode = "mkdir"
    THEN [ret |-> -EIO, file |-> old, temp |-> FALSE, written |-> <<>>,
          eff |-> <<Eff("safe_mkdir", 0, s, None, 0, 0, -EIO)>>]
    ELSE IF mode = "fopen"
    THEN [ret |-> -EIO, file |-> old, temp |-> FALSE, written |-> <<>>,
          eff |-> <<Eff("safe_mkdir", 0, s, None, 0, 0, 0),
                    Eff("fopen_temporary", 0, s, None, 0, 0, -EIO)>>]
    ELSE IF mode = "ferror"
    THEN [ret |-> -EIO, file |-> old, temp |-> TRUE, written |-> Snapshot(S, s),
          eff |-> <<Eff("safe_mkdir", 0, s, None, 0, 0, 0),
                    Eff("fopen_temporary", 0, s, None, 0, 0, 0),
                    Eff("write", 0, s, None, 0, 0, -EIO)>>]
    ELSE IF mode = "rename"
    THEN [ret |-> -EIO, file |-> old, temp |-> TRUE, written |-> Snapshot(S, s),
          eff |-> <<Eff("safe_mkdir", 0, s, None, 0, 0, 0),
                    Eff("fopen_temporary", 0, s, None, 0, 0, 0),
                    Eff("write", 0, s, None, 0, 0, 0),
                    Eff("rename", 0, s, None, 0, 0, -EIO)>>]
    ELSE [ret |-> 0, file |-> TRUE, temp |-> FALSE, written |-> Snapshot(S, s),
          eff |-> <<Eff("safe_mkdir", 0, s, None, 0, 0, 0),
                    Eff("fopen_temporary", 0, s, None, 0, 0, 0),
                    Eff("write", 0, s, None, 0, 0, 0),
                    Eff("rename", 0, s, None, 0, 0, 0)>>]

\* file: the state file exists after the call (old: before it); temp: the
\* temporary file exists after the call; written: the text put into the
\* temporary file
seat_save(S, s, old, mode) ==
    IF mode = "mkdir"
    THEN [ret |-> -EIO, file |-> old, temp |-> FALSE, written |-> <<>>,
          eff |-> <<Eff("safe_mkdir", 0, s, None, 0, 0, -EIO)>>]
    ELSE IF mode = "fopen"
    THEN [ret |-> -EIO, file |-> old, temp |-> FALSE, written |-> <<>>,
          eff |-> <<Eff("safe_mkdir", 0, s, None, 0, 0, 0),
                    Eff("fopen_temporary", 0, s, None, 0, 0, -EIO)>>]
    ELSE IF mode = "ferror"
    THEN [ret |-> -EIO, file |-> FALSE, temp |-> FALSE, written |-> Snapshot(S, s),
          eff |-> <<Eff("safe_mkdir", 0, s, None, 0, 0, 0),
                    Eff("fopen_temporary", 0, s, None, 0, 0, 0),
                    Eff("write", 0, s, None, 0, 0, -EIO),
                    Eff("unlink", 0, s, "state_file", 0, 0, 0),
                    Eff("unlink", 0, s, "temp_path", 0, 0, 0)>>]
    ELSE IF mode = "rename"
    THEN [ret |-> -EIO, file |-> FALSE, temp |-> FALSE, written |-> Snapshot(S, s),
          eff |-> <<Eff("safe_mkdir", 0, s, None, 0, 0, 0),
                    Eff("fopen_temporary", 0, s, None, 0, 0, 0),
                    Eff("write", 0, s, None, 0, 0, 0),
                    Eff("rename", 0, s, None, 0, 0, -EIO),
                    Eff("unlink", 0, s, "state_file", 0, 0, 0),
                    Eff("unlink", 0, s, "temp_path", 0, 0, 0)>>]
    ELSE [ret |-> 0, file |-> TRUE, temp |-> FALSE, written |-> Snapshot(S, s),
          eff |-> <<Eff("safe_mkdir", 0, s, None, 0, 0, 0),
                    Eff("fopen_temporary", 0, s, None, 0, 0, 0),
                    Eff("write", 0, s, None, 0, 0, 0),
                    Eff("rename", 0, s, None, 0, 0, 0)>>]

SeatSave ==
    \E s \in SeatIds, mode \in Outcomes("save", SaveModes, {"ok"}) :
        \E r \in {seat_save(seats, s, files[s], mode)} :
        /\ ~aborted
        /\ seats[s].exists
        /\ files' = [files EXCEPT ![s] = r.file]
        /\ temps' = [temps EXCEPT ![s] = r.temp]
        /\ call' = Call("seat_save", s, 0, <<>>, r.ret, r.eff, r.written)
        /\ UNCHANGED <<seats, vtnr, seat_gc_queue, vtconsole, world, aborted>>

\* -------------------------------------------------- vt_allocate, preallocate
\* fails: the VT numbers whose /dev/tty<n> cannot be opened
vt_allocate(n, fails) == IF n \in fails THEN -EIO ELSE 0

\* mutant: the loop ends at the first failure
RECURSIVE PreallocFrom_until_failure(_, _, _)
PreallocFrom_until_failure(i, n_autovts, fails) ==
    IF i < n_autovts
    THEN <<Eff("vt_allocate", i, None, None, 0, 0, vt_allocate(i, fails))>>
         \o (IF vt_allocate(i, fails) < 0 THEN <<>>
             ELSE PreallocFrom_until_failure(i + 1, n_autovts, fails))
    ELSE <<>>

\* for (i = 1; i < n_autovts; i++): the attempts from i on, in order
RECURSIVE PreallocFrom(_, _, _)
PreallocFrom(i, n_autovts, fails) ==
    IF i < n_autovts
    THEN <<Eff("vt_allocate", i, None, None, 0, 0, vt_allocate(i, fails))>>
         \o PreallocFrom(i + 1, n_autovts, fails)
    ELSE <<>>

\* r of the loop: the result of the last attempt that failed, or 0
RECURSIVE LastFailure(_)
LastFailure(e) ==
    IF e = <<>> THEN 0
    ELSE IF e[Len(e)].r < 0 THEN e[Len(e)].r
    ELSE LastFailure(SubSeq(e, 1, Len(e) - 1))

seat_preallocate_vts(s, n_autovts, fails) ==
    IF n_autovts <= 0 THEN [ret |-> 0, eff |-> <<>>]
    ELSE IF ~IsConsole(s) THEN [ret |-> 0, eff |-> <<>>]
    ELSE LET e == PreallocFrom(1, n_autovts, fails)
         IN  [ret |-> LastFailure(e), eff |-> e]

\* -------------------------------------------------- seat_read_active_vt
Digits == <<"0", "1", "2", "3", "4", "5", "6", "7", "8", "9">>
IsDigit(ch) == \E d \in 1..10 : Digits[d] = ch
DigitVal(ch) == (CHOOSE d \in 1..10 : Digits[d] = ch) - 1

\* "tty<n>" as the kernel prints it, with or without the final newline
TtyText(n, nl) ==
    <<"t", "t", "y", Digits[n + 1]>> \o (IF nl THEN <<"\n">> ELSE <<>>)

\* What read() on the console-active indicator may give: an error (errno > 0),
\* end of file (no text), or text.
GoodReads == {[errno |-> 0, text |-> TtyText(n, TRUE)] : n \in 1..MaxVT}
ConsoleReads ==
    {[errno |-> EIO, text |-> <<>>], [errno |-> 0, text |-> <<>>],
     [errno |-> 0, text |-> TtyText(0, TRUE)],
     [errno |-> 0, text |-> TtyText(1, FALSE)],
     [errno |-> 0, text |-> <<"t", "t", "y", "1", "0", "\n">>],
     [errno |-> 0, text |-> <<"t", "t", "y", "\n">>],
     [errno |-> 0, text |-> <<"f", "o", "o", "1", "\n">>],
     [errno |-> 0, text |-> <<"t", "t", "y", "X", "\n">>]}
    \cup GoodReads

\* strip a trailing newline
truncate_nl(t) ==
    IF t # <<>> /\ t[Len(t)] = "\n" THEN SubSeq(t, 1, Len(t) - 1) ELSE t

startswith(t, prefix) ==
    /\ Len(t) >= Len(prefix)
    /\ SubSeq(t, 1, Len(prefix)) = prefix

RECURSIVE DecimalValue(_)
DecimalValue(t) ==
    IF t = <<>> THEN 0
    ELSE 10 * DecimalValue(SubSeq(t, 1, Len(t) - 1)) + DigitVal(t[Len(t)])

\* r < 0: not a number; otherwise v is the value of the decimal digits
safe_atoi(t) ==
    IF t # <<>> /\ \A i \in 1..Len(t) : IsDigit(t[i])
    THEN [r |-> 0, v |-> DecimalValue(t)]
    ELSE [r |-> -EINVAL, v |-> 0]

\* mutant: the check vtnr <= 0 is missing
seat_read_active_vt_accepts_zero(S, s, rd, aclR) ==
    IF ~IsConsole(s)
    THEN [seats |-> S, ret |-> 0, eff |-> <<>>]
    ELSE LET k == IF rd.errno > 0 THEN -1 ELSE Len(rd.text)
             e == <<Eff("read", 0, s, None, 0, 0, k)>>
             t == truncate_nl(rd.text)
             a == safe_atoi(SubSeq(t, 4, Len(t)))
         IN  IF k <= 0
             THEN [seats |-> S, ret |-> IF k < 0 THEN -rd.errno ELSE -EIO, eff |-> e]
             ELSE IF ~startswith(t, <<"t", "t", "y">>)
             THEN [seats |-> S, ret |-> -EIO, eff |-> e]
             ELSE IF a.r < 0
             THEN [seats |-> S, ret |-> a.r, eff |-> e]
             ELSE LET c == seat_active_vt_changed(S, s, a.v, aclR)
                  IN  [seats |-> c.seats, ret |-> c.ret, eff |-> e \o c.eff]

seat_read_active_vt(S, s, rd, aclR) ==
    IF ~IsConsole(s)
    THEN [seats |-> S, ret |-> 0, eff |-> <<>>]
    ELSE LET k == IF rd.errno > 0 THEN -1 ELSE Len(rd.text)
             e == <<Eff("read", 0, s, None, 0, 0, k)>>
             t == truncate_nl(rd.text)
             a == safe_atoi(SubSeq(t, 4, Len(t)))
         IN  IF k <= 0
             THEN [seats |-> S, ret |-> IF k < 0 THEN -rd.errno ELSE -EIO, eff |-> e]
             ELSE IF ~startswith(t, <<"t", "t", "y">>)
             THEN [seats |-> S, ret |-> -EIO, eff |-> e]
             ELSE IF a.r < 0
             THEN [seats |-> S, ret |-> a.r, eff |-> e]
             ELSE IF a.v <= 0
             THEN [seats |-> S, ret |-> -EIO, eff |-> e]
             ELSE LET c == seat_active_vt_changed(S, s, a.v, aclR)
                  IN  [seats |-> c.seats, ret |-> c.ret, eff |-> e \o c.eff]

\* The inputs a call can read, given the state it starts from: an input the
\* call never reads is drawn from a single value.
NoRead == [errno |-> 0, text |-> <<>>]
ReadsOf(s, all) == IF IsConsole(s) THEN all ELSE {NoRead}
AclOf(S, s, rd) ==
    IF \E e \in Range(seat_read_active_vt(S, s, rd, 0).eff) : e.e = "devnode_acl_all"
    THEN Outcomes("acl", AclResults, {0}) ELSE {0}

SeatReadActiveVt ==
    /\ ~aborted
    /\ \E s \in SeatIds :
        /\ seats[s].exists
        /\ \E rd \in ReadsOf(s, Outcomes("read", ConsoleReads, GoodReads)) :
            \E aclR \in AclOf(seats, s, rd) :
                \E r \in {seat_read_active_vt(seats, s, rd, aclR)} :
                /\ seats' = r.seats
                /\ call' = Call("seat_read_active_vt", s, 0, rd.text, r.ret, r.eff, <<>>)
                /\ UNCHANGED <<vtnr, seat_gc_queue, vtconsole, files, temps, world, aborted>>

\* ----------------------------------------------------------- seat_start
\* Each of the three steps is entered in eff by a record named after it that
\* carries its result, followed by the external calls the step made.
Step(name, s, r) == Eff(name, 0, s, None, 0, 0, r)

\* mutant: the started check is missing
seat_start_unguarded(S, s, file, n_autovts, fails, rd, aclR, mode) ==
    LET p == seat_preallocate_vts(s, n_autovts, fails)
        v == seat_read_active_vt(S, s, rd, aclR)
        w == seat_save(v.seats, s, file, mode)
    IN  [seats |-> [v.seats EXCEPT ![s].started = TRUE],
         file |-> w.file, temp |-> w.temp, ret |-> 0,
         eff |-> <<Step("seat_preallocate_vts", s, p.ret)>> \o p.eff
                 \o <<Step("seat_read_active_vt", s, v.ret)>> \o v.eff
                 \o <<Step("seat_save", s, w.ret)>> \o w.eff,
         written |-> w.written]

\* mutant: a start clears the seat's GC worklist flag
seat_start_clears_gc_flag(S, s, file, n_autovts, fails, rd, aclR, mode) ==
    IF S[s].started
    THEN [seats |-> S, file |-> file, temp |-> FALSE, ret |-> 0, eff |-> <<>>,
          written |-> <<>>]
    ELSE LET p == seat_preallocate_vts(s, n_autovts, fails)
             v == seat_read_active_vt(S, s, rd, aclR)
             w == seat_save(v.seats, s, file, mode)
         IN  [seats |-> [v.seats EXCEPT ![s].started = TRUE,
                                        ![s].in_gc_queue = FALSE],
              file |-> w.file, temp |-> w.temp, ret |-> 0,
              eff |-> <<Step("seat_preallocate_vts", s, p.ret)>> \o p.eff
                      \o <<Step("seat_read_active_vt", s, v.ret)>> \o v.eff
                      \o <<Step("seat_save", s, w.ret)>> \o w.eff,
              written |-> w.written]

seat_start(S, s, file, n_autovts, fails, rd, aclR, mode) ==
    IF S[s].started
    THEN [seats |-> S, file |-> file, temp |-> FALSE, ret |-> 0, eff |-> <<>>,
          written |-> <<>>]
    ELSE LET p == seat_preallocate_vts(s, n_autovts, fails)
             v == seat_read_active_vt(S, s, rd, aclR)
             w == seat_save(v.seats, s, file, mode)
         IN  [seats |-> [v.seats EXCEPT ![s].started = TRUE],
              file |-> w.file, temp |-> w.temp, ret |-> 0,
              eff |-> <<Step("seat_preallocate_vts", s, p.ret)>> \o p.eff
                      \o <<Step("seat_read_active_vt", s, v.ret)>> \o v.eff
                      \o <<Step("seat_save", s, w.ret)>> \o w.eff,
              written |-> w.written]

\* the reads and save outcomes a start is exercised with
StartReads == {[errno |-> EIO, text |-> <<>>]} \cup GoodReads
StartSaveModes == {"ok", "rename"}

SeatStart ==
    /\ ~aborted
    /\ \E s \in SeatIds :
        /\ seats[s].exists
        /\ \E n \in 0..MaxAutoVts,
              rd \in IF seats[s].started THEN {NoRead}
                     ELSE ReadsOf(s, Outcomes("read", StartReads, GoodReads)),
              mode \in IF seats[s].started THEN {"ok"}
                       ELSE Outcomes("save", StartSaveModes, {"ok"}) :
            \E fails \in IF IsConsole(s) /\ ~seats[s].started
                          THEN Outcomes("open", SUBSET (1..(n - 1)), {{}}) ELSE {{}},
               aclR \in AclOf(seats, s, rd) :
                \E r \in {seat_start(seats, s, files[s], n, fails, rd, aclR, mode)} :
                /\ seats' = r.seats
                /\ files' = [files EXCEPT ![s] = r.file]
                /\ temps' = [temps EXCEPT ![s] = r.temp]
                /\ call' = Call("seat_start", s, n, rd.text, r.ret, r.eff, r.written)
                /\ UNCHANGED <<vtnr, seat_gc_queue, vtconsole, world, aborted>>

\* ------------------------------------------------------------ seat_stop
\* res: what session_stop() reports for each session
\* mutant: the loop ends at the first session whose stop fails
RECURSIVE StopAll_until_failure(_, _)
StopAll_until_failure(L, res) ==
    IF L = <<>> THEN <<>>
    ELSE <<Eff("session_stop", 0, Head(L), None, 0, 0, res[Head(L)])>>
         \o (IF res[Head(L)] < 0 THEN <<>> ELSE StopAll_until_failure(Tail(L), res))

RECURSIVE StopAll(_, _)
StopAll(L, res) ==
    IF L = <<>> THEN <<>>
    ELSE <<Eff("session_stop", 0, Head(L), None, 0, 0, res[Head(L)])>>
         \o StopAll(Tail(L), res)

\* mutant: only a seat that seat_check_gc reports collectible is queued
seat_stop_gc_checked(S, q, s, file, res) ==
    IF ~S[s].started
    THEN [seats |-> S, q |-> q, file |-> file, ret |-> 0, eff |-> <<>>]
    ELSE LET e == StopAll(S[s].sessions, res)
             g == IF seat_check_gc(S, s) = 0
                  THEN seat_add_to_gc_queue(S, q, s)
                  ELSE [seats |-> S, q |-> q]
         IN  [seats |-> [g.seats EXCEPT ![s].started = FALSE],
              q |-> g.q, file |-> FALSE, ret |-> LastFailure(e),
              eff |-> e \o <<Eff("unlink", 0, s, "state_file", 0, 0, 0)>>]

seat_stop(S, q, s, file, res) ==
    IF ~S[s].started
    THEN [seats |-> S, q |-> q, file |-> file, ret |-> 0, eff |-> <<>>]
    ELSE LET e == StopAll(S[s].sessions, res)
             g == seat_add_to_gc_queue(S, q, s)
         IN  [seats |-> [g.seats EXCEPT ![s].started = FALSE],
              q |-> g.q, file |-> FALSE, ret |-> LastFailure(e),
              eff |-> e \o <<Eff("unlink", 0, s, "state_file", 0, 0, 0)>>]

SeatStop ==
    /\ ~aborted
    /\ \E s \in SeatIds :
        /\ seats[s].exists
        /\ \E res \in [IF seats[s].started THEN Range(seats[s].sessions) ELSE {}
                         -> Outcomes("stop", StopResults, {0})] :
            \E r \in {seat_stop(seats, seat_gc_queue, s, files[s], res)} :
            /\ seats' = r.seats
            /\ seat_gc_queue' = r.q
            /\ files' = [files EXCEPT ![s] = r.file]
            /\ call' = Call("seat_stop", s, 0, <<>>, r.ret, r.eff, <<>>)
            /\ UNCHANGED <<vtnr, vtconsole, temps, world, aborted>>

\* ------------------------------------------------------------ seat_free
\* while (s->sessions) session_free(s->sessions): front to back
RECURSIVE FreeSessions(_, _)
FreeSessions(S, s) ==
    IF S[s].sessions = <<>> THEN S
    ELSE FreeSessions(session_free(S, Head(S[s].sessions)), s)

RECURSIVE FreeDevices(_, _)
FreeDevices(S, s) ==
    IF S[s].devices = 0 THEN S ELSE FreeDevices(device_free(S, s), s)

\* mutant: the seat is not taken off the GC worklist
seat_free_without_dequeue(S, q, s) ==
    LET S1 == FreeSessions(S, s)
        e1 == [i \in 1..Len(S[s].sessions) |->
                  Eff("session_free", 0, S[s].sessions[i], None, 0, 0, 0)]
        S2 == FreeDevices(S1, s)
        e2 == [i \in 1..S1[s].devices |-> Eff("device_free", 0, s, None, 0, 0, 0)]
    IN  IF S1[s].active # None
        THEN [seats |-> S1, q |-> q, ok |-> FALSE, eff |-> e1]
        ELSE [seats |-> [S2 EXCEPT ![s] = BlankSeat], q |-> q, ok |-> TRUE,
              eff |-> e1 \o e2]

\* ok = FALSE: the assertion of line 71 failed and the process aborted there
seat_free(S, q, s) ==
    LET q1 == IF S[s].in_gc_queue THEN Remove(q, s) ELSE q
        S1 == FreeSessions(S, s)
        e1 == [i \in 1..Len(S[s].sessions) |->
                  Eff("session_free", 0, S[s].sessions[i], None, 0, 0, 0)]
        S2 == FreeDevices(S1, s)
        e2 == [i \in 1..S1[s].devices |-> Eff("device_free", 0, s, None, 0, 0, 0)]
    IN  IF S1[s].active # None
        THEN [seats |-> S1, q |-> q1, ok |-> FALSE, eff |-> e1]
        ELSE [seats |-> [S2 EXCEPT ![s] = BlankSeat], q |-> q1, ok |-> TRUE,
              eff |-> e1 \o e2]

SeatFree ==
    \E s \in SeatIds :
        \E r \in {seat_free(seats, seat_gc_queue, s)} :
        /\ ~aborted
        /\ seats[s].exists
        /\ seats' = r.seats
        /\ seat_gc_queue' = r.q
        /\ aborted' = ~r.ok
        /\ vtnr' = [c \in SessionIds |->
                       IF c \in Range(seats[s].sessions) THEN 0 ELSE vtnr[c]]
        /\ call' = Call("seat_free", s, 0, <<>>, 0, r.eff, <<>>)
        /\ UNCHANGED <<vtconsole, files, temps, world>>

Next ==
    \/ SeatNew
    \/ SessionAttach
    \/ SessionFree
    \/ DeviceAttach
    \/ DeviceFree
    \/ SeatAddToGcQueue
    \/ SeatCheckGc
    \/ SeatActiveVtChanged
    \/ SeatSave
    \/ SeatReadActiveVt
    \/ SeatStart
    \/ SeatStop
    \/ SeatFree

Spec == Init /\ [][Next]_vars

\* ================================================================ claims
\* helpers to read the record of the last call
IsVtAllocate(e) == e.e = "vt_allocate"
IsSessionStop(e) == e.e = "session_stop"
IsStep(e) == e.e \in {"seat_preallocate_vts", "seat_read_active_vt", "seat_save"}
IsAcl(e) == e.e = "devnode_acl_all"
IsSpawn(e) == e.e = "manager_spawn_autovt"
Names(q) == [i \in 1..Len(q) |-> q[i].e]
Numbers(q) == [i \in 1..Len(q) |-> q[i].n]
Targets(q) == [i \in 1..Len(q) |-> q[i].a]
\* a seat_start / seat_stop call that did not return at its first check
RanStart == call.op = "seat_start" /\ call.eff # <<>>
RanStop == call.op = "seat_stop" /\ call.eff # <<>>
OnVt(s, n) == {c \in Range(seats[s].sessions) : vtnr[c] = n}

\* C1: in every reachable state each seat's `active` is none or one of the
\* sessions in that seat's `sessions` list.
C1_ActiveIsMember ==
    \A s \in SeatIds :
        seats[s].active = None \/ seats[s].active \in Range(seats[s].sessions)

\* an active-VT change has just made a session active
C1_Witness ==
    /\ call.op = "seat_active_vt_changed"
    /\ call.eff # <<>>
    /\ seats[call.seat].active # None

\* C2: on the console seat with an active session, seat_active_vt_changed with
\* the VT number of the active session changes nothing: `active` and every
\* other seat field stay, no ACL apply, no spawn_autovt request, result 0.
C2_SameVtIsNoop ==
    [][(/\ call'.op = "seat_active_vt_changed"
        /\ IsConsole(call'.seat)
        /\ seats[call'.seat].active # None
        /\ call'.n = vtnr[seats[call'.seat].active])
       => (/\ seats' = seats
           /\ call'.eff = <<>>
           /\ call'.ret = 0)]_vars

\* the call was made with the VT of the active session while two sessions of
\* the list are on that VT
C2_Witness ==
    /\ call.op = "seat_active_vt_changed"
    /\ IsConsole(call.seat)
    /\ seats[call.seat].active # None
    /\ call.n = vtnr[seats[call.seat].active]
    /\ call.eff = <<>>
    /\ Cardinality(OnVt(call.seat, call.n)) = 2

\* C3 as stated: on the console seat a change to a VT no session is on sets
\* `active` to none, applies ACLs with new = none and requests spawn_autovt(n),
\* whatever `active` was before.
C3_Original ==
    [][(/\ call'.op = "seat_active_vt_changed"
        /\ IsConsole(call'.seat)
        /\ OnVt(call'.seat, call'.n) = {})
       => (/\ seats'[call'.seat].active = None
           /\ Len(call'.eff) = 2
           /\ IsAcl(call'.eff[1]) /\ call'.eff[1].b = None
           /\ IsSpawn(call'.eff[2]) /\ call'.eff[2].n = call'.n)]_vars

\* C3 amended: with `active` non-empty before the call, the change sets it to
\* none, applies ACLs with old = the previous active and new = none, and
\* requests spawn_autovt(n); with `active` already none the call changes
\* nothing and makes neither call.
C3_NoSessionOnVt ==
    [][(/\ call'.op = "seat_active_vt_changed"
        /\ IsConsole(call'.seat)
        /\ OnVt(call'.seat, call'.n) = {})
       => IF seats[call'.seat].active # None
          THEN /\ seats'[call'.seat].active = None
               /\ Len(call'.eff) = 2
               /\ IsAcl(call'.eff[1])
               /\ call'.eff[1].a = seats[call'.seat].active
               /\ call'.eff[1].b = None
               /\ IsSpawn(call'.eff[2]) /\ call'.eff[2].n = call'.n
               /\ call'.ret = 0
          ELSE /\ seats' = seats
               /\ call'.eff = <<>>
               /\ call'.ret = 0]_vars

\* a change to a VT without a session has just cleared `active`
C3_Witness ==
    /\ call.op = "seat_active_vt_changed"
    /\ OnVt(call.seat, call.n) = {}
    /\ seats[call.seat].sessions # <<>>
    /\ seats[call.seat].active = None
    /\ Len(call.eff) = 2
    /\ call.eff[1].a # None /\ call.eff[1].b = None

\* C4 as stated: seat_free on a seat whose `active` is set is rejected by the
\* assertion before it touches anything: no session or device is destroyed,
\* the seat stays in the GC worklist and in the registry.
C4_FreeWithActiveRejected ==
    [][(/\ call'.op = "seat_free"
        /\ seats[call'.seat].active # None)
       => (/\ aborted'
           /\ seats' = seats
           /\ seat_gc_queue' = seat_gc_queue)]_vars

\* C5: seat_start on a started seat and seat_stop on an unstarted seat return 0,
\* make no external call, write nothing and leave the seats, the GC worklist
\* and the files as they were.
C5_StartStopIdempotent ==
    [][(\/ call'.op = "seat_start" /\ seats[call'.seat].started
        \/ call'.op = "seat_stop" /\ ~seats[call'.seat].started)
       => (/\ call'.ret = 0
           /\ call'.eff = <<>>
           /\ call'.written = <<>>
           /\ UNCHANGED <<seats, vtnr, seat_gc_queue, files, temps>>)]_vars

\* a start has just returned on the started console seat, which holds a
\* session and has autovts configured
C5_Witness ==
    /\ call.op = "seat_start"
    /\ call.eff = <<>>
    /\ seats[call.seat].started
    /\ IsConsole(call.seat)
    /\ seats[call.seat].sessions # <<>>
    /\ call.n >= 1

\* C6 as stated: a start that runs on the console seat with autovt count
\* N >= 1 attempts /dev/tty<n> for n = 1..N, once each, in order; on another
\* seat it attempts none.
C6_PreallocatesOneToN ==
    RanStart =>
        Numbers(SelectSeq(call.eff, IsVtAllocate)) =
            IF IsConsole(call.seat) /\ call.n >= 1
            THEN [i \in 1..call.n |-> i]
            ELSE <<>>

\* C7: a start that runs enters its three steps in the order preallocate,
\* read active VT, save, whichever of them fail; the VTs it attempts are
\* those it attempts when no open fails; it returns 0 and leaves the seat
\* started.
C7_StartIsBestEffort ==
    RanStart =>
        /\ Names(SelectSeq(call.eff, IsStep)) =
               <<"seat_preallocate_vts", "seat_read_active_vt", "seat_save">>
        /\ Names(call.eff)[1] = "seat_preallocate_vts"
        /\ Numbers(SelectSeq(call.eff, IsVtAllocate)) =
               Numbers(seat_preallocate_vts(call.seat, call.n, {}).eff)
        /\ \A i \in 1..Len(call.eff) :
               IsVtAllocate(call.eff[i]) =>
                   /\ \E j \in (i + 1)..Len(call.eff) :
                          call.eff[j].e = "seat_read_active_vt"
                   /\ \A j \in 1..(i - 1) :
                          call.eff[j].e # "seat_read_active_vt"
        /\ call.ret = 0
        /\ seats[call.seat].started

\* every step of the start failed, the open of VT 1 among them, and VT 2 was
\* still attempted
C7_Witness ==
    /\ RanStart
    /\ \A i \in 1..Len(call.eff) : IsStep(call.eff[i]) => call.eff[i].r < 0
    /\ \E i \in 1..Len(call.eff) :
           /\ IsVtAllocate(call.eff[i]) /\ call.eff[i].n = 1 /\ call.eff[i].r < 0
           /\ \E j \in (i + 1)..Len(call.eff) :
                  IsVtAllocate(call.eff[j]) /\ call.eff[j].n = 2

\* C8: a stop that runs requests session_stop once for each session of the
\* list, in list order, whichever of them fail, and returns the result of the
\* last one that failed, or 0 when none did.
C8_StopStopsEverySession ==
    RanStop =>
        LET e == SelectSeq(call.eff, IsSessionStop)
            failed == {i \in 1..Len(e) : e[i].r < 0}
        IN  /\ Targets(e) = seats[call.seat].sessions
            /\ call.ret = IF failed = {} THEN 0
                          ELSE e[CHOOSE i \in failed : \A j \in failed : j <= i].r

\* the first of two sessions failed to stop, the second stopped, and the
\* failure is what the stop returned
C8_Witness ==
    /\ RanStop
    /\ Len(seats[call.seat].sessions) = 2
    /\ call.eff[1].r < 0
    /\ call.eff[2].r = 0
    /\ call.ret = call.eff[1].r

\* C9: seat_check_gc reports collectible (0) exactly for a seat that is not the
\* console seat and owns no device, and keep (1) for every other seat.
C9_CheckGc ==
    call.op = "seat_check_gc" =>
        /\ call.ret \in {0, 1}
        /\ call.ret = 0 <=> (~IsConsole(call.seat) /\ seats[call.seat].devices = 0)

\* a started seat that is queued for GC and is not the console seat was
\* reported collectible
C9_Witness ==
    /\ call.op = "seat_check_gc"
    /\ call.ret = 0
    /\ seats[call.seat].started
    /\ seats[call.seat].in_gc_queue

\* C10: the GC worklist holds no seat twice, holds exactly the seats whose
\* in_gc_queue flag is set, and holds registered seats only.
C10_GcQueueConsistent ==
    /\ \A i, j \in 1..Len(seat_gc_queue) :
           seat_gc_queue[i] = seat_gc_queue[j] => i = j
    /\ \A s \in SeatIds : seats[s].in_gc_queue <=> s \in Range(seat_gc_queue)
    /\ \A s \in Range(seat_gc_queue) : seats[s].exists

\* a queued seat was destroyed while another seat stays queued
C10_Witness ==
    /\ call.op = "seat_free"
    /\ ~seats[call.seat].exists
    /\ Len(seat_gc_queue) = 1
    /\ \E s \in SeatIds : seats[s].exists /\ seats[s].in_gc_queue

\* C11: a seat_new that fails returns NULL and leaves the registry and the GC
\* worklist as they were; it fails whenever the id is already registered, and
\* the registered seat stays as it is; a seat_new that succeeds adds one fresh
\* seat under an id that was not registered.
C11_NewFailureLeavesNoTrace ==
    [][call'.op = "seat_new" =>
        /\ seats[call'.seat].exists => call'.ret = 0
        /\ call'.ret = 0 => UNCHANGED <<seats, seat_gc_queue, vtnr, files, temps>>
        /\ call'.ret # 0 =>
               /\ ~seats[call'.seat].exists
               /\ seats' = [seats EXCEPT ![call'.seat] =
                                [BlankSeat EXCEPT !.exists = TRUE]]
               /\ seat_gc_queue' = seat_gc_queue]_vars

\* seat_new was refused for the id of a registered seat that holds a session
\* and is queued for GC
C11_Witness ==
    /\ call.op = "seat_new"
    /\ call.ret = 0
    /\ seats[call.seat].exists
    /\ seats[call.seat].sessions # <<>>
    /\ seats[call.seat].in_gc_queue

\* a call that wrote a snapshot to the temporary file
Wrote == call.written # <<>>
\* the sessions of seat s other than the active one, in list order
NonActive(s) ==
    LET NotActive(c) == c # seats[s].active
    IN  SelectSeq(seats[s].sessions, NotActive)
IndexOf(w, tok) == CHOOSE i \in 1..Len(w) : w[i] = tok
\* the tokens written after "OTHER=" up to "OTHER_UIDS=", and after "OTHER_UIDS="
OtherLine(w) == SubSeq(w, IndexOf(w, "OTHER=") + 1, IndexOf(w, "OTHER_UIDS=") - 1)
OtherUidsLine(w) == SubSeq(w, IndexOf(w, "OTHER_UIDS=") + 1, Len(w))
\* the elements of L (ids, or uids) separated by single spaces and ended by a
\* newline
RECURSIVE SpaceSeparatedLine(_, _)
SpaceSeparatedLine(L, uids) ==
    IF L = <<>> THEN <<>>
    ELSE <<IF uids THEN UidText(Head(L)) ELSE Head(L),
           IF Len(L) > 1 THEN " " ELSE "\n">>
         \o SpaceSeparatedLine(Tail(L), uids)

\* C12 as stated: a snapshot holds "OTHER=" and "OTHER_UIDS=" exactly when the
\* seat has a session that is not the active one.
C12_OtherLinesIffNonActive ==
    Wrote =>
        /\ "OTHER=" \in Range(call.written) <=> NonActive(call.seat) # <<>>
        /\ "OTHER_UIDS=" \in Range(call.written) <=> NonActive(call.seat) # <<>>

\* C15 as stated: when the seat has a session that is not the active one,
\* the text after "OTHER=" is the ids of the non-active sessions in list order,
\* separated by single spaces and ended by a newline, and the text after
\* "OTHER_UIDS=" is their uids in the same form, wherever the active session
\* is in the list.
C15_OtherLinesWellFormed ==
    (Wrote /\ NonActive(call.seat) # <<>>) =>
        /\ OtherLine(call.written) = SpaceSeparatedLine(NonActive(call.seat), FALSE)
        /\ OtherUidsLine(call.written) = SpaceSeparatedLine(NonActive(call.seat), TRUE)

\* the decimal digits of n >= 1, most significant first
RECURSIVE DecimalText(_)
DecimalText(n) ==
    IF n < 10 THEN <<Digits[n + 1]>>
    ELSE DecimalText(n \div 10) \o <<Digits[(n % 10) + 1]>>
\* "tty" followed by the decimal digits of n, with or without a final newline
VtTexts(n) ==
    {<<"t", "t", "y">> \o DecimalText(n) \o nl : nl \in {<<>>, <<"\n">>}}
VtNumbers == 1..99

\* C13: seat_read_active_vt on the console seat runs the active-VT change with
\* n when the text read is "tty" followed by the decimal digits of a positive
\* n, with or without a final newline; for every other read it returns an
\* error, leaves the seats as they were and makes no ACL apply and no
\* spawn_autovt request.
C13_ReadActiveVtParses ==
    [][(call'.op = "seat_read_active_vt" /\ IsConsole(call'.seat)) =>
        IF \E n \in VtNumbers : call'.text \in VtTexts(n)
        THEN LET n == CHOOSE n \in VtNumbers : call'.text \in VtTexts(n)
             IN  \E aclR \in AclResults :
                     LET c == seat_active_vt_changed(seats, call'.seat, n, aclR)
                     IN  /\ seats' = c.seats
                         /\ call'.ret = c.ret
                         /\ Tail(call'.eff) = c.eff
        ELSE /\ call'.ret < 0
             /\ seats' = seats
             /\ \A i \in 1..Len(call'.eff) :
                    ~IsAcl(call'.eff[i]) /\ ~IsSpawn(call'.eff[i])]_vars

\* "tty1" without a final newline was read and made the session on VT 1 active
C13_Witness ==
    /\ call.op = "seat_read_active_vt"
    /\ call.text = TtyText(1, FALSE)
    /\ call.ret = 0
    /\ Len(call.eff) = 3
    /\ seats[call.seat].active # None
    /\ vtnr[seats[call.seat].active] = 1

\* C14: seat_active_vt_changed on a seat that is not the console seat returns
\* -EINVAL, leaves every seat as it was and makes no external call, also when
\* a session of the seat is on the reported VT.
C14_NonConsoleRejected ==
    [][(call'.op = "seat_active_vt_changed" /\ ~IsConsole(call'.seat)) =>
        /\ call'.ret = -EINVAL
        /\ call'.eff = <<>>
        /\ UNCHANGED <<seats, vtnr, seat_gc_queue, files, temps>>]_vars

\* the call was refused on a seat other than the console seat for the VT
\* that one of its sessions is on
C14_Witness ==
    /\ call.op = "seat_active_vt_changed"
    /\ ~IsConsole(call.seat)
    /\ call.ret = -EINVAL
    /\ OnVt(call.seat, call.n) # {}
    /\ seats[call.seat].active = None

\* C17: an active-VT change whose ACL apply fails is not undone: `active` is
\* the first session of the list on the reported VT (or none), spawn_autovt is
\* requested for the reported VT after the ACL apply, and the call returns 0;
\* every ACL apply is made with the previous `active` as old and the new
\* `active` as new.
C17_AclFailureNotRolledBack ==
    [][(call'.op = "seat_active_vt_changed" /\ call'.eff # <<>>) =>
        /\ IsAcl(call'.eff[1])
        /\ call'.eff[1].a = seats[call'.seat].active
        /\ call'.eff[1].b = seats'[call'.seat].active
        /\ call'.eff[1].a # call'.eff[1].b
        /\ seats'[call'.seat].active = FirstOnVt(seats[call'.seat].sessions, call'.n)
        /\ seats' = [seats EXCEPT ![call'.seat].active = seats'[call'.seat].active]
        /\ Len(call'.eff) = 2
        /\ IsSpawn(call'.eff[2]) /\ call'.eff[2].n = call'.n
        /\ call'.ret = 0]_vars

\* the ACL apply of a change from one session to another failed, and the
\* newly selected session is the active one
C17_Witness ==
    /\ call.op = "seat_active_vt_changed"
    /\ Len(call.eff) = 2
    /\ IsAcl(call.eff[1]) /\ call.eff[1].r < 0
    /\ call.eff[1].a # None
    /\ call.eff[1].b # None
    /\ seats[call.seat].active = call.eff[1].b

\* the call opened the temporary file
OpenedTemp(c) ==
    \E i \in 1..Len(c.eff) : c.eff[i].e = "fopen_temporary" /\ c.eff[i].r = 0

\* C16: a seat_save that fails after it opened the temporary file returns a
\* negative result and leaves neither the temporary file nor the state file;
\* one that succeeds wrote the whole snapshot, renamed it onto the state file
\* and leaves no temporary file; one that fails earlier leaves the state file
\* as it was. No file of another seat is touched.
C16_SaveFailureCleansUp ==
    [][call'.op = "seat_save" =>
        /\ (call'.ret # 0 /\ OpenedTemp(call')) =>
               /\ call'.ret < 0
               /\ ~files'[call'.seat]
               /\ ~temps'[call'.seat]
        /\ (call'.ret # 0 /\ ~OpenedTemp(call')) =>
               /\ call'.ret < 0
               /\ files'[call'.seat] = files[call'.seat]
               /\ ~temps'[call'.seat]
        /\ call'.ret = 0 =>
               /\ files'[call'.seat]
               /\ ~temps'[call'.seat]
               /\ call'.written = Snapshot(seats, call'.seat)
               /\ Names(call'.eff) =
                      <<"safe_mkdir", "fopen_temporary", "write", "rename">>
               /\ \A i \in 1..Len(call'.eff) : call'.eff[i].r = 0
        /\ \A s \in SeatIds \ {call'.seat} :
               files'[s] = files[s] /\ temps'[s] = temps[s]]_vars

\* the rename of a save on a started seat failed, and neither file is left
C16_Witness ==
    /\ call.op = "seat_save"
    /\ call.ret < 0
    /\ \E i \in 1..Len(call.eff) : call.eff[i].e = "rename" /\ call.eff[i].r < 0
    /\ seats[call.seat].started
    /\ ~files[call.seat]
    /\ ~temps[call.seat]

IsSessionFree(e) == e.e = "session_free"
IsDeviceFree(e) == e.e = "device_free"

\* C18: seat_free on a seat whose `active` is none completes; afterwards the
\* seat is neither registered nor in the GC worklist, each session of its list
\* was destroyed, front to back, and is in no list, each of its devices was
\* destroyed, and every other seat, its sessions, its devices and its place in
\* the worklist are as before.
C18_FreeDestroysOwnedOnly ==
    [][(call'.op = "seat_free" /\ seats[call'.seat].active = None) =>
        LET s == call'.seat
        IN  /\ ~aborted'
            /\ ~seats'[s].exists
            /\ ~seats'[s].in_gc_queue
            /\ s \notin Range(seat_gc_queue')
            /\ Targets(SelectSeq(call'.eff, IsSessionFree)) = seats[s].sessions
            /\ Len(SelectSeq(call'.eff, IsDeviceFree)) = seats[s].devices
            /\ seats'[s].sessions = <<>>
            /\ seats'[s].devices = 0
            /\ \A c \in Range(seats[s].sessions) :
                   /\ vtnr'[c] = 0
                   /\ \A o \in SeatIds : c \notin Range(seats'[o].sessions)
            /\ \A o \in SeatIds \ {s} : seats'[o] = seats[o]
            /\ \A c \in SessionIds \ Range(seats[s].sessions) : vtnr'[c] = vtnr[c]
            /\ seat_gc_queue' = Remove(seat_gc_queue, s)]_vars

\* a seat with two sessions and a device was destroyed: both sessions, in
\* list order, then the device
C18_Witness ==
    /\ call.op = "seat_free"
    /\ ~aborted
    /\ ~seats[call.seat].exists
    /\ Names(call.eff) = <<"session_free", "session_free", "device_free">>
    /\ call.eff[1].a # call.eff[2].a

\* C19: a seat_stop on a started seat leaves the seat not started, without a
\* state file and in the GC worklist, whether or not the seat is the console
\* seat or owns devices and whether or not a session stop failed; `active`,
\* `sessions`, `devices`, the VT of every session and every other seat are as
\* before.
C19_StopLeavesSeatQueued ==
    [][(call'.op = "seat_stop" /\ seats[call'.seat].started) =>
        LET s == call'.seat
        IN  /\ ~seats'[s].started
            /\ ~files'[s]
            /\ seats'[s].in_gc_queue
            /\ s \in Range(seat_gc_queue')
            /\ seats'[s].active = seats[s].active
            /\ seats'[s].sessions = seats[s].sessions
            /\ seats'[s].devices = seats[s].devices
            /\ seats'[s].exists
            /\ \A o \in SeatIds \ {s} : seats'[o] = seats[o]
            /\ vtnr' = vtnr]_vars

\* the console seat, which owns a device and has an active session, was
\* stopped while a session stop failed, and is in the GC worklist
C19_Witness ==
    /\ call.op = "seat_stop"
    /\ call.eff # <<>>
    /\ call.ret < 0
    /\ IsConsole(call.seat)
    /\ seats[call.seat].devices > 0
    /\ seats[call.seat].active # None
    /\ seats[call.seat].in_gc_queue
    /\ ~seats[call.seat].started
    /\ seat_check_gc(seats, call.seat) = 1

\* C20: seat_start leaves the GC worklist and every seat's in_gc_queue flag
\* as they were, so a seat started again after a stop is started and still
\* queued; a seat leaves the worklist only by a seat_free of that seat.
C20_StartKeepsGcMembership ==
    [][/\ call'.op = "seat_start" =>
            /\ seat_gc_queue' = seat_gc_queue
            /\ \A s \in SeatIds : seats'[s].in_gc_queue = seats[s].in_gc_queue
       /\ \A s \in SeatIds :
            (s \in Range(seat_gc_queue) /\ s \notin Range(seat_gc_queue'))
                => (call'.op = "seat_free" /\ call'.seat = s)]_vars

\* a seat that is in the GC worklist has just been started
C20_Witness ==
    /\ RanStart
    /\ seats[call.seat].started
    /\ seats[call.seat].in_gc_queue
    /\ call.seat \in Range(seat_gc_queue)
====
